---- MODULE Spec2Model ----
(***************************************************************************)
(* A model of main.py, the Streamlit dashboard "극지식물 최적 EC 농도 연구".     *)
(*                                                                         *)
(* One script run goes top to bottom: load_environment_data,               *)
(* load_growth_data, the sidebar selector, then the three tabs.  An        *)
(* uncaught exception ends the run (pc = "crashed").  Both loaders are     *)
(* wrapped in st.cache_data, which survives script reruns.                 *)
(*                                                                         *)
(* Text is a sequence of Unicode code points (integers), so that NFC       *)
(* normalisation, str.split, Path.suffix and str.lower are computed and    *)
(* not assumed.  None is the empty sequence <<>>, a present value x is     *)
(* <<x>>.  A dict is the sequence of its items in insertion order.  A      *)
(* float mean is an exact reduced fraction, NaN the fraction 0/0.          *)
(***************************************************************************)
EXTENDS Integers, Sequences, FiniteSets, TLC

VARIABLES
    disk,             \* the data directory: [exists, entries in iterdir() order]
    userChoice,       \* what the user has picked in the sidebar selectbox
    pc,               \* position of the script run
    exc,              \* the uncaught exception of the run and where it was raised
    cache,            \* st.cache_data's store: one optional entry per loader
    bodyRuns,         \* how many times each loader's body has been executed
    env_data,         \* line 98
    growth_data,      \* line 99
    reported,         \* st.error messages surfaced in this run
    school_option,    \* line 122
    selected_schools, \* line 127
    tab1,             \* what tab 1 computed and rendered
    tab2,             \* what tab 2 computed and rendered
    tab3,             \* what tab 3 computed and rendered
    runs,             \* number of script runs started in the session
    first,            \* history: what the first completed load of each loader returned
    call              \* a direct call of one of the two file resolvers and its result

vars == <<disk, userChoice, pc, exc, cache, bodyRuns, env_data, growth_data,
          reported, school_option, selected_schools, tab1, tab2, tab3, runs,
          first, call>>

(***************************************************************************)
(* Bounds of the model.                                                    *)
(***************************************************************************)
MaxSheets == 2
MaxEntries == 2
MaxReruns == 2

(***************************************************************************)
(* Python values.                                                          *)
(***************************************************************************)
None == <<>>
Some(x) == <<x>>
NoExc == "none"
NoCrash == [type |-> NoExc, at |-> NoExc]

Min(S) == CHOOSE x \in S : \A y \in S : x <= y

(***************************************************************************)
(* unicodedata.normalize("NFC", text) on text made of Hangul syllables,    *)
(* conjoining jamo and characters without a decomposition (ASCII): the     *)
(* canonical decomposition followed by the canonical composition of the    *)
(* Unicode standard (section 3.12, Hangul syllable arithmetic).            *)
(***************************************************************************)
Hangul ==
    [SBase |-> 44032, LBase |-> 4352, VBase |-> 4449, TBase |-> 4519,
     LCount |-> 19, VCount |-> 21, TCount |-> 28, SCount |-> 11172]

IsL(c) == c >= Hangul.LBase /\ c < Hangul.LBase + Hangul.LCount
IsV(c) == c >= Hangul.VBase /\ c < Hangul.VBase + Hangul.VCount
IsT(c) == c > Hangul.TBase /\ c < Hangul.TBase + Hangul.TCount
IsSyllable(c) == c >= Hangul.SBase /\ c < Hangul.SBase + Hangul.SCount
IsLV(c) == IsSyllable(c) /\ (c - Hangul.SBase) % Hangul.TCount = 0

Decompose(c) ==
    IF IsSyllable(c)
    THEN LET s == c - Hangul.SBase
             l == Hangul.LBase + (s \div (Hangul.VCount * Hangul.TCount))
             v == Hangul.VBase + ((s % (Hangul.VCount * Hangul.TCount)) \div Hangul.TCount)
             t == Hangul.TBase + (s % Hangul.TCount)
         IN  IF t = Hangul.TBase THEN <<l, v>> ELSE <<l, v, t>>
    ELSE <<c>>

RECURSIVE NFD(_)
NFD(text) ==
    IF text = <<>> THEN <<>> ELSE Decompose(Head(text)) \o NFD(Tail(text))

ComposeStep(out, c) ==
    IF out = <<>> THEN <<c>>
    ELSE LET last == out[Len(out)]
             front == SubSeq(out, 1, Len(out) - 1)
         IN  IF IsL(last) /\ IsV(c)
             THEN Append(front, Hangul.SBase
                           + ((last - Hangul.LBase) * Hangul.VCount + (c - Hangul.VBase))
                             * Hangul.TCount)
             ELSE IF IsLV(last) /\ IsT(c)
                  THEN Append(front, last + (c - Hangul.TBase))
                  ELSE Append(out, c)

RECURSIVE Compose(_, _)
Compose(out, text) ==
    IF text = <<>> THEN out ELSE Compose(ComposeStep(out, Head(text)), Tail(text))

\* A plausible bug: names compared as they are stored, without normalisation.
normalize_text_identity(text) == text

normalize_text(text) == Compose(<<>>, NFD(text))

(***************************************************************************)
(* The four sites and the names built from them.                           *)
(***************************************************************************)
Songdo == <<49569, 46020, 44256>>      \* 송도고
Haneul == <<54616, 45720, 44256>>      \* 하늘고
Ara == <<50500, 46972, 44256>>         \* 아라고
Dongsan == <<46041, 49328, 44256>>     \* 동산고
AllSchools == <<51204, 52404>>         \* 전체

EnvSuffix == <<95, 54872, 44221, 45936, 51060, 53552, 46, 99, 115, 118>>  \* _환경데이터.csv

env_files ==
    <<Songdo \o EnvSuffix, Haneul \o EnvSuffix, Ara \o EnvSuffix, Dongsan \o EnvSuffix>>

SelectboxOptions == <<AllSchools, Songdo, Haneul, Ara, Dongsan>>

EC_INFO_get(school) ==
    IF school = Songdo THEN Some(1)
    ELSE IF school = Haneul THEN Some(2)
    ELSE IF school = Ara THEN Some(4)
    ELSE IF school = Dongsan THEN Some(8)
    ELSE None

SCHOOL_COLORS_get(school) ==
    IF school = Songdo THEN "#1f77b4"
    ELSE IF school = Haneul THEN "#2ca02c"
    ELSE IF school = Ara THEN "#ff7f0e"
    ELSE IF school = Dongsan THEN "#d62728"
    ELSE "#000000"

(***************************************************************************)
(* str and pathlib helpers.                                                *)
(***************************************************************************)
\* fname.split("_")[0]: the text before the first underscore (all of it if none)
SplitFirst(text) ==
    LET us == {i \in 1..Len(text) : text[i] = 95}
    IN  IF us = {} THEN text ELSE SubSeq(text, 1, Min(us) - 1)

\* str.lower() on the characters of the model: ASCII capitals are folded
LowerChar(c) == IF c >= 65 /\ c <= 90 THEN c + 32 ELSE c
lower(text) == [i \in 1..Len(text) |-> LowerChar(text[i])]

\* PurePath.suffix: from the last dot, unless the dot is first or last
suffix(name) ==
    LET dots == {i \in 1..Len(name) : name[i] = 46}
    IN  IF dots = {} THEN <<>>
        ELSE LET i == CHOOSE d \in dots : \A e \in dots : e <= d
             IN  IF i > 1 /\ i < Len(name) THEN SubSeq(name, i, Len(name)) ELSE <<>>

DotXlsx == <<46, 120, 108, 115, 120>>  \* ".xlsx"

(***************************************************************************)
(* Directory entries.  An entry is a file of the data directory: its name, *)
(* the table pd.read_csv makes of it, and the sheets pd.ExcelFile finds in *)
(* it (name and rows of each, in workbook order).                          *)
(***************************************************************************)
Entry(name, table, sheets) == [name |-> name, table |-> table, sheets |-> sheets]

Result(raised, value, msgs) == [raised |-> raised, value |-> value, msgs |-> msgs]

Message(msg, file) == [msg |-> msg, file |-> file]

(***************************************************************************)
(* find_file_by_name, lines 36-41: the first entry, in iteration order,    *)
(* whose normalised name equals the normalised target; None when the loop  *)
(* ends.  directory.iterdir() raises FileNotFoundError when the directory  *)
(* does not exist.                                                         *)
(***************************************************************************)
RECURSIVE ScanExact(_, _, _)
ScanExact(entries, i, target_nfc) ==
    IF i > Len(entries) THEN None
    ELSE IF normalize_text(entries[i].name) = target_nfc THEN Some(entries[i])
    ELSE ScanExact(entries, i + 1, target_nfc)

find_file_by_name(directory, target_name) ==
    IF ~directory.exists
    THEN Result("FileNotFoundError", None, <<>>)
    ELSE Result(NoExc, ScanExact(directory.entries, 1, normalize_text(target_name)), <<>>)

(***************************************************************************)
(* The workbook scan of load_growth_data, lines 78-83: the first entry     *)
(* whose suffix, lower-cased, is ".xlsx".                                  *)
(***************************************************************************)
\* A plausible bug: the suffix compared without lower().
HasXlsxSuffix_case_sensitive(name) == suffix(name) = DotXlsx

HasXlsxSuffix(name) == lower(suffix(name)) = DotXlsx

RECURSIVE ScanXlsx(_, _)
ScanXlsx(entries, i) ==
    IF i > Len(entries) THEN None
    ELSE IF HasXlsxSuffix(entries[i].name) THEN Some(entries[i])
    ELSE ScanXlsx(entries, i + 1)

find_xlsx(directory) ==
    IF ~directory.exists
    THEN Result("FileNotFoundError", None, <<>>)
    ELSE Result(NoExc, ScanXlsx(directory.entries, 1), <<>>)

(***************************************************************************)
(* load_environment_data, lines 47-73 (the body under the cache).          *)
(***************************************************************************)
RECURSIVE EnvLoop(_, _, _, _)
EnvLoop(data_dir, i, acc, msgs) ==
    IF i > Len(env_files) THEN Result(NoExc, acc, msgs)
    ELSE LET fname == env_files[i]
             file_path == find_file_by_name(data_dir, fname).value
         IN  IF file_path = None
             THEN EnvLoop(data_dir, i + 1, acc, Append(msgs, Message("file_not_found", fname)))
             ELSE EnvLoop(data_dir, i + 1,
                          Append(acc, [key |-> SplitFirst(fname), df |-> file_path[1].table]),
                          msgs)

load_environment_data(data_dir) ==
    IF ~data_dir.exists
    THEN Result(NoExc, <<>>, <<Message("data_dir_not_found", <<>>)>>)
    ELSE EnvLoop(data_dir, 1, <<>>, <<>>)

(***************************************************************************)
(* load_growth_data, lines 76-96 (the body under the cache).  Nothing      *)
(* tests data_dir.exists() here: the loop header of line 80 raises.        *)
(***************************************************************************)
ReadSheets(sheets) ==
    [i \in 1..Len(sheets) |-> [key |-> sheets[i].name, df |-> sheets[i].rows]]

load_growth_data(data_dir) ==
    LET scan == find_xlsx(data_dir)
    IN  IF scan.raised # NoExc THEN Result(scan.raised, <<>>, <<>>)
        ELSE IF scan.value = None
        THEN Result(NoExc, <<>>, <<Message("xlsx_not_found", <<>>)>>)
        ELSE Result(NoExc, ReadSheets(scan.value[1].sheets), <<>>)

(***************************************************************************)
(* st.cache_data, lines 46 and 75: the loaders take no argument, so each   *)
(* has one cache entry.  A hit returns the stored value and replays the    *)
(* stored st.error elements without running the body; a miss runs the      *)
(* body and stores what it returned.  A body that raises stores nothing.   *)
(***************************************************************************)
CacheHit(entry) == entry # None

CachedCall(entry, body) ==
    IF CacheHit(entry)
    THEN [result |-> Result(NoExc, entry[1].value, entry[1].msgs), entry |-> entry, ran |-> 0]
    ELSE [result |-> body,
          entry |-> IF body.raised = NoExc
                    THEN Some([value |-> body.value, msgs |-> body.msgs])
                    ELSE None,
          ran |-> 1]

(***************************************************************************)
(* dict and pandas helpers.                                                *)
(***************************************************************************)
Keys(d) == [i \in 1..Len(d) |-> d[i].key]

\* dict.get(key): the value, or None
DictGet(d, key) ==
    LET idx == {i \in 1..Len(d) : d[i].key = key}
    IN  IF idx = {} THEN None ELSE Some(d[Min(idx)].df)

RECURSIVE Sum(_)
Sum(xs) == IF xs = <<>> THEN 0 ELSE Head(xs) + Sum(Tail(xs))

RECURSIVE GCD(_, _)
GCD(a, b) == IF b = 0 THEN a ELSE GCD(b, a % b)

NaN == [num |-> 0, den |-> 0]

\* Series.mean(): NaN for an empty column, else sum / count
Mean(xs) ==
    IF Len(xs) = 0 THEN NaN
    ELSE LET g == GCD(Sum(xs), Len(xs))
         IN  [num |-> Sum(xs) \div g, den |-> Len(xs) \div g]

IsNaN(m) == m.den = 0

Greater(a, b) == a.num * b.den > b.num * a.den

Column(df, col) == [i \in 1..Len(df) |-> df[i][col]]

\* pd.concat(frames): "No objects to concatenate" for an empty list
RECURSIVE Flatten(_)
Flatten(frames) == IF frames = <<>> THEN <<>> ELSE Head(frames) \o Flatten(Tail(frames))

concat(frames) ==
    IF Len(frames) = 0 THEN Result("ValueError", <<>>, <<>>)
    ELSE Result(NoExc, Flatten(frames), <<>>)

(***************************************************************************)
(* Series.idxmax() followed by DataFrame.loc, line 253.  NaN is skipped;   *)
(* the first position of the largest value wins.  An empty series raises   *)
(* ValueError.  A series of NaN only raises ValueError in idxmax, or (in   *)
(* pandas versions whose idxmax returns NaN there) KeyError in .loc.       *)
(***************************************************************************)
\* A plausible bug: a later equal value replaces the best so far.
RECURSIVE ArgmaxFrom_last(_, _, _)
ArgmaxFrom_last(series, i, best) ==
    IF i > Len(series) THEN best
    ELSE IF IsNaN(series[i]) THEN ArgmaxFrom_last(series, i + 1, best)
    ELSE IF best = 0 \/ ~Greater(series[best], series[i])
         THEN ArgmaxFrom_last(series, i + 1, i)
         ELSE ArgmaxFrom_last(series, i + 1, best)

RECURSIVE ArgmaxFrom(_, _, _)
ArgmaxFrom(series, i, best) ==
    IF i > Len(series) THEN best
    ELSE IF IsNaN(series[i]) THEN ArgmaxFrom(series, i + 1, best)
    ELSE IF best = 0 \/ Greater(series[i], series[best])
         THEN ArgmaxFrom(series, i + 1, i)
         ELSE ArgmaxFrom(series, i + 1, best)

idxmax(series) == ArgmaxFrom(series, 1, 0)

IdxmaxRaises(series) ==
    IF Len(series) = 0 THEN {"ValueError"}
    ELSE IF idxmax(series) = 0 THEN {"ValueError", "KeyError"}
    ELSE {}

(***************************************************************************)
(* Tab 1, lines 148-175.                                                   *)
(***************************************************************************)
SummaryRow(item) ==
    [school |-> item.key, ec |-> EC_INFO_get(item.key), count |-> Len(item.df),
     color |-> SCHOOL_COLORS_get(item.key)]

summary_rows(gd) == [i \in 1..Len(gd) |-> SummaryRow(gd[i])]

\* A plausible bug: "total_plants = count" in place of "total_plants += count".
total_plants_assign(gd) == IF gd = <<>> THEN 0 ELSE Len(gd[Len(gd)].df)

RECURSIVE total_plants(_)
total_plants(gd) == IF gd = <<>> THEN 0 ELSE Len(Head(gd).df) + total_plants(Tail(gd))

Values(d) == [i \in 1..Len(d) |-> d[i].df]

\* line 175: the fourth metric is a literal
OptimalECLiteral == [ec |-> Some(2), school |-> Haneul]

Tab1Start == [summary_df |-> <<>>, table_shown |-> FALSE, metrics |-> None]

(***************************************************************************)
(* Tab 2, lines 183-235.                                                   *)
(***************************************************************************)
AvgRow(school, df) ==
    [school |-> school,
     temperature |-> Mean(Column(df, "temperature")),
     humidity |-> Mean(Column(df, "humidity")),
     ph |-> Mean(Column(df, "ph")),
     ec |-> Mean(Column(df, "ec")),
     target_ec |-> EC_INFO_get(school)]

RECURSIVE avg_rows(_, _)
avg_rows(schools, ed) ==
    IF schools = <<>> THEN <<>>
    ELSE LET df == DictGet(ed, Head(schools))
         IN  IF df = None THEN avg_rows(Tail(schools), ed)
             ELSE <<AvgRow(Head(schools), df[1])>> \o avg_rows(Tail(schools), ed)

\* lines 218-223: the charts drawn before env_data[school] raises KeyError, if it does
RECURSIVE TimeSeries(_, _, _)
TimeSeries(schools, ed, drawn) ==
    IF schools = <<>> THEN Result(NoExc, drawn, <<>>)
    ELSE IF DictGet(ed, Head(schools)) = None THEN Result("KeyError", drawn, <<>>)
    ELSE TimeSeries(Tail(schools), ed, Append(drawn, Head(schools)))

Tab2Start == [avg_df |-> <<>>, bars_shown |-> FALSE, ts_charts |-> <<>>, downloads |-> <<>>]

(***************************************************************************)
(* Tab 3, lines 243-307.                                                   *)
(***************************************************************************)
WeightRow(item) ==
    [school |-> item.key, ec |-> EC_INFO_get(item.key),
     mean_weight |-> Mean(Column(item.df, "weight"))]

weight_rows(gd) == [i \in 1..Len(gd) |-> WeightRow(gd[i])]

MeanColumn(gd, col) == [i \in 1..Len(gd) |-> Mean(Column(gd[i].df, col))]

BarValues(gd) ==
    [weight |-> MeanColumn(gd, "weight"), leaves |-> MeanColumn(gd, "leaves"),
     shoot |-> MeanColumn(gd, "shoot"), counts |-> [i \in 1..Len(gd) |-> Len(gd[i].df)]]

Tab3Start ==
    [weight_df |-> <<>>, best_row |-> None, bars |-> None, distribution_shown |-> FALSE,
     download_sheets |-> None]

(***************************************************************************)
(* The script run, one action per top-level section of main.py.            *)
(***************************************************************************)
\* an uncaught exception: Streamlit shows it and stops the run where it was raised
Crash(e) == pc' = "crashed" /\ exc' = [type |-> e, at |-> pc]

\* line 98: env_data = load_environment_data()
LoadEnv ==
    /\ pc = "load_env"
    /\ \E c \in {CachedCall(cache.env, load_environment_data(disk))} :
           /\ cache' = [cache EXCEPT !.env = c.entry]
           /\ bodyRuns' = [bodyRuns EXCEPT !.env = @ + c.ran]
           /\ env_data' = c.result.value
           /\ reported' = reported \o c.result.msgs
           /\ first' = IF first.env = None
                       THEN [first EXCEPT !.env = Some(c.result.value)]
                       ELSE first
    /\ pc' = "load_growth"
    /\ UNCHANGED <<disk, userChoice, exc, growth_data, school_option, selected_schools,
                   tab1, tab2, tab3, runs, call>>

\* line 99: growth_data = load_growth_data()
LoadGrowth ==
    /\ pc = "load_growth"
    /\ \E c \in {CachedCall(cache.growth, load_growth_data(disk))} :
           /\ cache' = [cache EXCEPT !.growth = c.entry]
           /\ bodyRuns' = [bodyRuns EXCEPT !.growth = @ + c.ran]
           /\ reported' = reported \o c.result.msgs
           /\ IF c.result.raised # NoExc
              THEN /\ Crash(c.result.raised)
                   /\ UNCHANGED <<growth_data, first>>
              ELSE /\ pc' = "sidebar"
                   /\ growth_data' = c.result.value
                   /\ first' = IF first.growth = None
                               THEN [first EXCEPT !.growth = Some(c.result.value)]
                               ELSE first
                   /\ UNCHANGED exc
    /\ UNCHANGED <<disk, userChoice, env_data, school_option, selected_schools,
                   tab1, tab2, tab3, runs, call>>

\* lines 121-129
Sidebar ==
    /\ pc = "sidebar"
    /\ school_option' = userChoice
    /\ selected_schools' = IF userChoice = AllSchools THEN Keys(env_data) ELSE <<userChoice>>
    /\ pc' = "tab1"
    /\ UNCHANGED <<disk, userChoice, exc, cache, bodyRuns, env_data, growth_data, reported,
                   tab1, tab2, tab3, runs, first, call>>

\* lines 141-175
Tab1 ==
    /\ pc = "tab1"
    /\ LET all_env == concat(Values(env_data))
           shown == [summary_df |-> summary_rows(growth_data), table_shown |-> TRUE,
                     metrics |-> None]
       IN  IF all_env.raised # NoExc
           THEN /\ Crash(all_env.raised)
                /\ tab1' = shown
           ELSE /\ pc' = "tab2"
                /\ tab1' = [shown EXCEPT !.metrics =
                              Some([total |-> total_plants(growth_data),
                                    avg_temp |-> Mean(Column(all_env.value, "temperature")),
                                    avg_hum |-> Mean(Column(all_env.value, "humidity")),
                                    optimal |-> OptimalECLiteral])]
                /\ UNCHANGED exc
    /\ UNCHANGED <<disk, userChoice, cache, bodyRuns, env_data, growth_data, reported,
                   school_option, selected_schools, tab2, tab3, runs, first, call>>

\* lines 180-235
Tab2 ==
    /\ pc = "tab2"
    /\ LET ts == TimeSeries(selected_schools, env_data, <<>>)
           shown == [avg_df |-> avg_rows(selected_schools, env_data), bars_shown |-> TRUE,
                     ts_charts |-> ts.value, downloads |-> <<>>]
       IN  IF ts.raised # NoExc
           THEN /\ Crash(ts.raised)
                /\ tab2' = shown
           ELSE /\ pc' = "tab3"
                /\ tab2' = [shown EXCEPT !.downloads = Keys(env_data)]
                /\ UNCHANGED exc
    /\ UNCHANGED <<disk, userChoice, cache, bodyRuns, env_data, growth_data, reported,
                   school_option, selected_schools, tab1, tab3, runs, first, call>>

\* lines 240-307
Tab3 ==
    /\ pc = "tab3"
    /\ LET rows == weight_rows(growth_data)
           series == [i \in 1..Len(rows) |-> rows[i].mean_weight]
           all_growth == concat(Values(growth_data))
           shown == [Tab3Start EXCEPT !.weight_df = rows]
       IN  IF IdxmaxRaises(series) # {}
           THEN /\ \E e \in IdxmaxRaises(series) : Crash(e)
                /\ tab3' = shown
           ELSE IF all_growth.raised # NoExc
           THEN /\ Crash(all_growth.raised)
                /\ tab3' = [shown EXCEPT !.best_row = Some(rows[idxmax(series)]),
                                         !.bars = Some(BarValues(growth_data))]
           ELSE /\ pc' = "done"
                /\ tab3' = [weight_df |-> rows,
                            best_row |-> Some(rows[idxmax(series)]),
                            bars |-> Some(BarValues(growth_data)),
                            distribution_shown |-> TRUE,
                            download_sheets |-> Some(Keys(growth_data))]
                /\ UNCHANGED exc
    /\ UNCHANGED <<disk, userChoice, cache, bodyRuns, env_data, growth_data, reported,
                   school_option, selected_schools, tab1, tab2, runs, first, call>>

\* a widget interaction or a manual rerun: the script runs again from the top, in
\* the same session; only st.cache_data's store survives
Rerun ==
    /\ pc \in {"done", "crashed"}
    /\ runs < MaxReruns
    /\ runs' = runs + 1
    /\ \E c \in {SelectboxOptions[i] : i \in 1..Len(SelectboxOptions)} : userChoice' = c
    /\ pc' = "load_env"
    /\ exc' = NoCrash
    /\ env_data' = <<>>
    /\ growth_data' = <<>>
    /\ reported' = <<>>
    /\ school_option' = None
    /\ selected_schools' = <<>>
    /\ tab1' = Tab1Start
    /\ tab2' = Tab2Start
    /\ tab3' = Tab3Start
    /\ UNCHANGED <<disk, cache, bodyRuns, first, call>>

(***************************************************************************)
(* The data directory (section 6 of the interface: one CSV per site, one   *)
(* workbook with a sheet per site), and the ways it can differ from that.  *)
(***************************************************************************)
\* 4개교_생육결과데이터.xlsx
WorkbookName ==
    <<52, 44060, 44368, 95, 49373, 50977, 44208, 44284, 45936, 51060, 53552,
      46, 120, 108, 115, 120>>

Sites == <<Songdo, Haneul, Ara, Dongsan>>
OtherSheet == <<83, 104, 101, 101, 116, 49>>   \* "Sheet1"
SheetNames == {Songdo, Haneul, Ara, Dongsan, OtherSheet}

\* rows of a site CSV: time, temperature, humidity, ph, ec
SampleEnvTable(school) ==
    <<[time |-> 1, temperature |-> 20, humidity |-> 50, ph |-> 6,
       ec |-> EC_INFO_get(school)[1]],
      [time |-> 2, temperature |-> 22, humidity |-> 54, ph |-> 6,
       ec |-> EC_INFO_get(school)[1] + 1]>>

\* rows of a growth sheet: 생중량(g), 잎 수(장), 지상부 길이(mm)
GrowthTable(ws) ==
    [i \in 1..Len(ws) |-> [weight |-> ws[i], leaves |-> ws[i] + 1, shoot |-> 10 * ws[i]]]

GrowthTables == {GrowthTable(<<>>), GrowthTable(<<2>>), GrowthTable(<<1, 3>>), GrowthTable(<<3>>)}

InjectiveSeqs(S, n) == {f \in [1..n -> S] : \A i, j \in 1..n : i # j => f[i] # f[j]}

\* the sheets of a workbook: distinct names, any order, any of the tables
Workbooks ==
    UNION {{[i \in 1..n |-> [name |-> ns[i], rows |-> ts[i]]] :
               ns \in InjectiveSeqs(SheetNames, n), ts \in [1..n -> GrowthTables]} :
           n \in 0..MaxSheets}

\* the workbook of the interface: one sheet per site, in any order, each site with
\* any of the tables
FourSiteWorkbooks ==
    {[i \in 1..4 |-> [name |-> ns[i], rows |-> ts[i]]] :
        ns \in InjectiveSeqs({Songdo, Haneul, Ara, Dongsan}, 4),
        ts \in InjectiveSeqs(GrowthTables, 4)}

StandardWorkbook ==
    <<[name |-> Songdo, rows |-> GrowthTable(<<2>>)],
      [name |-> Haneul, rows |-> GrowthTable(<<1, 3>>)],
      [name |-> Ara, rows |-> GrowthTable(<<3>>)],
      [name |-> Dongsan, rows |-> GrowthTable(<<>>)]>>

\* a site's CSV: absent; stored under the composed name; or stored under the
\* decomposed name (as macOS archives do) and holding a header only
EnvOptions == {"absent", "nfc", "nfd_empty"}

EnvEntry(i, opt) ==
    IF opt = "absent" THEN <<>>
    ELSE IF opt = "nfc" THEN <<Entry(env_files[i], SampleEnvTable(Sites[i]), <<>>)>>
    ELSE <<Entry(NFD(env_files[i]), <<>>, <<>>)>>

EnvEntries(opts) ==
    EnvEntry(1, opts[1]) \o EnvEntry(2, opts[2]) \o EnvEntry(3, opts[3]) \o EnvEntry(4, opts[4])

WorkbookEntry(w) == IF w = None THEN <<>> ELSE <<Entry(WorkbookName, <<>>, w[1])>>

Directory(opts, w) == [exists |-> TRUE, entries |-> EnvEntries(opts) \o WorkbookEntry(w)]

MissingDirectory == [exists |-> FALSE, entries |-> <<>>]

AllPresent == [i \in 1..4 |-> "nfc"]

Choices == {SelectboxOptions[i] : i \in 1..Len(SelectboxOptions)}

\* the inputs of one run: the directory and the user's choice
RunInputs ==
    {<<MissingDirectory, c>> : c \in Choices}
    \cup {<<Directory(opts, w), c>> :
             opts \in [1..4 -> EnvOptions], w \in {None, Some(StandardWorkbook)}, c \in Choices}
    \cup {<<Directory(AllPresent, Some(w)), AllSchools>> : w \in Workbooks \cup FourSiteWorkbooks}

SessionDisks ==
    {MissingDirectory,
     [exists |-> TRUE, entries |-> <<>>],
     Directory(AllPresent, Some(StandardWorkbook)),
     Directory([AllPresent EXCEPT ![2] = "absent"], None)}

IdleCall == [fn |-> "none", target |-> <<>>, result |-> Result(NoExc, None, <<>>)]

RunStart ==
    /\ pc = "load_env"
    /\ exc = NoCrash
    /\ cache = [env |-> None, growth |-> None]
    /\ bodyRuns = [env |-> 0, growth |-> 0]
    /\ env_data = <<>>
    /\ growth_data = <<>>
    /\ reported = <<>>
    /\ school_option = None
    /\ selected_schools = <<>>
    /\ tab1 = Tab1Start
    /\ tab2 = Tab2Start
    /\ tab3 = Tab3Start
    /\ runs = 1
    /\ first = [env |-> None, growth |-> None]

Init ==
    /\ \E in \in RunInputs : disk = in[1] /\ userChoice = in[2]
    /\ RunStart
    /\ call = IdleCall

Next == LoadEnv \/ LoadGrowth \/ Sidebar \/ Tab1 \/ Tab2 \/ Tab3

\* one script run on a fresh cache, for every directory and choice of RunInputs
Spec == Init /\ [][Next]_vars

(***************************************************************************)
(* A session: reruns of the script, with the directory free to change.     *)
(***************************************************************************)
FsChange ==
    /\ \E d \in SessionDisks \ {disk} : disk' = d
    /\ UNCHANGED <<userChoice, pc, exc, cache, bodyRuns, env_data, growth_data, reported,
                   school_option, selected_schools, tab1, tab2, tab3, runs, first, call>>

InitSession ==
    /\ disk \in SessionDisks
    /\ userChoice \in Choices
    /\ RunStart
    /\ call = IdleCall

NextSession == LoadEnv \/ LoadGrowth \/ Sidebar \/ Tab1 \/ Tab2 \/ Tab3 \/ Rerun \/ FsChange

SpecSession == InitSession /\ [][NextSession]_vars

(***************************************************************************)
(* The two resolvers called directly, on any listing of candidate names.   *)
(***************************************************************************)
\* 생육결과
GrowthKey == <<49373, 50977, 44208, 44284>>

CandidateNames ==
    {env_files[1],                                           \* 송도고_환경데이터.csv, composed
     NFD(env_files[1]),                                      \* the same, decomposed
     NFD(<<Songdo[1]>>) \o Tail(env_files[1]),               \* first syllable decomposed
     <<49569, 46020, 44256, 32>> \o Tail(EnvSuffix),         \* "송도고 환경데이터.csv"
     env_files[2],                                           \* 하늘고_환경데이터.csv
     WorkbookName,                                           \* 4개교_생육결과데이터.xlsx
     <<47700, 47784, 46, 88, 76, 83, 88>>,                   \* 메모.XLSX
     DotXlsx}                                                \* ".xlsx", a name without suffix

Targets == {env_files[1], NFD(env_files[1]), env_files[2], WorkbookName, GrowthKey}

Listings ==
    UNION {{[i \in 1..n |-> Entry(ns[i], <<>>, <<>>)] : ns \in InjectiveSeqs(CandidateNames, n)} :
           n \in 0..MaxEntries}

InitResolver ==
    /\ disk \in {MissingDirectory} \cup {[exists |-> TRUE, entries |-> l] : l \in Listings}
    /\ userChoice = AllSchools
    /\ RunStart
    /\ \E t \in Targets : call = [IdleCall EXCEPT !.target = t]

CallFind ==
    /\ call.fn = "none"
    /\ call' = [call EXCEPT !.fn = "find_file_by_name",
                            !.result = find_file_by_name(disk, call.target)]
    /\ UNCHANGED <<disk, userChoice, pc, exc, cache, bodyRuns, env_data, growth_data, reported,
                   school_option, selected_schools, tab1, tab2, tab3, runs, first>>

CallScan ==
    /\ call.fn = "none"
    /\ call' = [call EXCEPT !.fn = "find_xlsx", !.result = find_xlsx(disk)]
    /\ UNCHANGED <<disk, userChoice, pc, exc, cache, bodyRuns, env_data, growth_data, reported,
                   school_option, selected_schools, tab1, tab2, tab3, runs, first>>

NextResolver == CallFind \/ CallScan

SpecResolver == InitResolver /\ [][NextResolver]_vars

(***************************************************************************)
(* Properties.                                                             *)
(***************************************************************************)
Entries == disk.entries
Past(stages) == pc \notin stages
CrashedAt(stages) == pc = "crashed" /\ exc.at \in stages
HasMessage(m) == \E i \in 1..Len(reported) : reported[i] = m

\* C1: on an existing directory find_file_by_name does not raise; it returns None
\* exactly when no entry's NFC-normalised name equals the NFC-normalised target, and
\* otherwise the first entry, in iteration order, whose normalised name does; a name
\* that differs from the target only in normalisation form (equal canonical
\* decompositions) is therefore matched.
C1_ExactResolution ==
    (call.fn = "find_file_by_name" /\ disk.exists) =>
        LET r == call.result
            matches == {i \in 1..Len(Entries) :
                          normalize_text(Entries[i].name) = normalize_text(call.target)}
            equivalent == {i \in 1..Len(Entries) : NFD(Entries[i].name) = NFD(call.target)}
        IN  /\ r.raised = NoExc
            /\ (r.value = None) <=> (matches = {})
            /\ matches # {} => r.value = Some(Entries[Min(matches)])
            /\ equivalent # {} => r.value # None

\* C1 witness: the entry found is stored under a name that is not the target's code
\* points (it matches only after normalisation).
C1_Witness ==
    /\ call.fn = "find_file_by_name"
    /\ call.result.value # None
    /\ call.result.value[1].name # call.target

\* C2 (as claimed): with the data directory missing, both loaders report it and
\* return an empty result, nothing is raised, and the missing-directory report is
\* never made for a directory that exists.
C2_MissingDirectory ==
    /\ (~disk.exists /\ Past({"load_env"})) =>
          env_data = <<>> /\ HasMessage(Message("data_dir_not_found", <<>>))
    /\ (~disk.exists /\ Past({"load_env", "load_growth"})) =>
          growth_data = <<>> /\ exc = NoCrash
    /\ disk.exists => ~HasMessage(Message("data_dir_not_found", <<>>))

SiteFileMissing(i) ==
    \A k \in 1..Len(Entries) : normalize_text(Entries[k].name) # normalize_text(env_files[i])

\* C3 (as claimed): in an existing directory every site whose environment file is
\* missing is reported and left out of env_data, and tabs 1 and 2 (overview
\* averages, per-site averages, time series, CSV downloads) complete for every value
\* of the selector.
C3_MissingSiteFile ==
    disk.exists =>
        /\ Past({"load_env"}) =>
              \A i \in 1..Len(env_files) :
                  SiteFileMissing(i) =>
                      /\ HasMessage(Message("file_not_found", env_files[i]))
                      /\ DictGet(env_data, Sites[i]) = None
        /\ ~CrashedAt({"tab1", "tab2"})

NoWorkbook == \A k \in 1..Len(Entries) : ~HasXlsxSuffix(Entries[k].name)

\* C4 (as claimed): in an existing directory without a workbook the growth loader
\* reports it and returns an empty mapping, and the growth tab then completes.
C4_MissingWorkbook ==
    (disk.exists /\ NoWorkbook) =>
        /\ Past({"load_env", "load_growth"}) =>
              growth_data = <<>> /\ HasMessage(Message("xlsx_not_found", <<>>))
        /\ ~CrashedAt({"tab3"})

\* the sheets of the workbook in the directory, in workbook order
WorkbookSheets ==
    LET ks == {k \in 1..Len(Entries) : Entries[k].name = WorkbookName}
    IN  IF ks = {} THEN <<>> ELSE Entries[Min(ks)].sheets

SheetMean(sheet) == Mean([k \in 1..Len(sheet.rows) |-> sheet.rows[k].weight])

\* the sheets with the highest mean weight (sheets without rows have none)
TopSheets ==
    {i \in 1..Len(WorkbookSheets) :
        /\ ~IsNaN(SheetMean(WorkbookSheets[i]))
        /\ \A j \in 1..Len(WorkbookSheets) :
              IsNaN(SheetMean(WorkbookSheets[j]))
              \/ ~Greater(SheetMean(WorkbookSheets[j]), SheetMean(WorkbookSheets[i]))}

\* position in the fixed site list 송도고, 하늘고, 아라고, 동산고 (other names after it)
SiteRank(school) ==
    LET ks == {k \in 1..Len(Sites) : Sites[k] = school}
    IN  IF ks = {} THEN Len(Sites) + 1 ELSE Min(ks)

\* C5 (as claimed): the best site has the highest mean weight and, among sites with
\* equal highest means, is the first in the fixed site-list order.
C5_TieFixedOrder ==
    tab3.best_row # None =>
        \E i \in TopSheets :
            /\ tab3.best_row[1].school = WorkbookSheets[i].name
            /\ \A j \in TopSheets :
                  SiteRank(WorkbookSheets[i].name) <= SiteRank(WorkbookSheets[j].name)

\* C5 (amended): the best site has the highest mean weight over the loaded sheets
\* and, among sites with equal highest means, is the first in the workbook's sheet
\* order.
C5_TieSheetOrder ==
    tab3.best_row # None =>
        /\ TopSheets # {}
        /\ tab3.best_row[1].school = WorkbookSheets[Min(TopSheets)].name
        /\ tab3.best_row[1].mean_weight = SheetMean(WorkbookSheets[Min(TopSheets)])

\* C5 witness: a best site was chosen among sites tied for the highest mean whose
\* sheet order is not the fixed site-list order.
C5_Witness ==
    /\ pc = "done"
    /\ tab3.best_row # None
    /\ \E i, j \in TopSheets :
          i < j /\ SiteRank(WorkbookSheets[i].name) > SiteRank(WorkbookSheets[j].name)

\* C6 (as claimed): within a session each loader's body runs (reads the data
\* directory) at most once, and every run sees the data the first load returned.
C6_LoadOnce ==
    /\ bodyRuns.env <= 1
    /\ bodyRuns.growth <= 1
    /\ Past({"load_env"}) => env_data = first.env[1]
    /\ (Past({"load_env", "load_growth"}) /\ ~CrashedAt({"load_growth"})) =>
          growth_data = first.growth[1]

Strip(text) == SelectSeq(text, LAMBDA c : c \notin {32, 95, 45})

Contains(text, key) ==
    \E k \in 0..(Len(text) - Len(key)) : SubSeq(text, k + 1, k + Len(key)) = key

\* the name ends in the extension, letters compared without case, after a stem
EndsWith(name, ext) ==
    /\ Len(name) > Len(ext)
    /\ \A k \in 1..Len(ext) :
          LET c == name[Len(name) - Len(ext) + k]
          IN  c = ext[k] \/ (ext[k] >= 97 /\ ext[k] <= 122 /\ c = ext[k] - 32)

DotCsv == <<46, 99, 115, 118>>

KeyMatches(name, key, ext) ==
    EndsWith(name, ext) /\ Contains(Strip(normalize_text(name)), Strip(normalize_text(key)))

C8_SummaryTable ==
    /\ tab1.table_shown =>
          /\ Len(tab1.summary_df) = Len(WorkbookSheets)
          /\ \A i \in 1..Len(WorkbookSheets) :
                /\ tab1.summary_df[i].school = WorkbookSheets[i].name
                /\ tab1.summary_df[i].count = Len(WorkbookSheets[i].rows)
    /\ tab1.metrics # None =>
          tab1.metrics[1].total = Sum([i \in 1..Len(WorkbookSheets) |-> Len(WorkbookSheets[i].rows)])

\* C8 witness: a four-sheet workbook, at least two sheets with rows, total shown.
C8_Witness ==
    /\ tab1.metrics # None
    /\ Len(tab1.summary_df) = 4
    /\ Cardinality({i \in 1..4 : tab1.summary_df[i].count > 0}) >= 2

Zero == [num |-> 0, den |-> 1]

\* C9 (as claimed): the mean of an empty table is NaN, which is not 0, and no step
\* that consumes such a mean raises: with a sheet loaded the growth tab completes,
\* and tabs 1 and 2 fail only for a reason other than an empty table.
C9_EmptyTableMean ==
    /\ \A i \in 1..Len(tab3.weight_df) :
          Len(growth_data[i].df) = 0 =>
              IsNaN(tab3.weight_df[i].mean_weight) /\ tab3.weight_df[i].mean_weight # Zero
    /\ CrashedAt({"tab3"}) => growth_data = <<>>
    /\ CrashedAt({"tab1"}) => env_data = <<>>
    /\ CrashedAt({"tab2"}) =>
          \E i \in 1..Len(selected_schools) : DictGet(env_data, selected_schools[i]) = None

\* C10 (as claimed): the optimal EC shown in the overview tab names the site and EC
\* of the best row computed in the growth tab.
C10_OptimalECIsBest ==
    (tab1.metrics # None /\ tab3.best_row # None) =>
        /\ tab1.metrics[1].optimal.school = tab3.best_row[1].school
        /\ tab1.metrics[1].optimal.ec = tab3.best_row[1].ec

====
